---- MODULE Spec2Model ----
(***************************************************************************)
(* A model of apps/taskflow/experiments/visualize.py: main() creates the   *)
(* output directory and runs seven figure builders in a fixed order; each  *)
(* builder draws onto a fresh pyplot figure, saves it as .png and .pdf,    *)
(* closes it and prints a progress line.                                   *)
(*                                                                         *)
(* Text the program computes with (names, paths, labels, console lines) is *)
(* a sequence of one-character strings, so that concatenation, formatting  *)
(* and sorting are computed rather than assumed.  Text the program only    *)
(* passes through (colours, titles) is an opaque string.                   *)
(*                                                                         *)
(* Numbers: calls and latency are in tenths, costs in units of 1e-4 USD,   *)
(* tokens and success rates are integers.  The console lines are written   *)
(* without the pictographs that start them in the source.                  *)
(*                                                                         *)
(* A definition named <name>_<change> placed right before <name> is a      *)
(* faulty variant of it, used to show that a property depends on <name>.   *)
(***************************************************************************)
EXTENDS Integers, Sequences, FiniteSets, TLC

----------------------------------------------------------------------------
(* Text *)

Digits == <<"0","1","2","3","4","5","6","7","8","9">>

\* The characters that occur in file names, in code point order.
Alphabet ==
  <<"\n"," ","#","$","%","(",")",",","-",".","/",
    "0","1","2","3","4","5","6","7","8","9",":",
    "A","B","C","D","E","F","G","H","I","J","K","L","M",
    "N","O","P","Q","R","S","T","U","V","W","X","Y","Z","_",
    "a","b","c","d","e","f","g","h","i","j","k","l","m",
    "n","o","p","q","r","s","t","u","v","w","x","y","z">>

Ord(c) == CHOOSE i \in 1..Len(Alphabet) : Alphabet[i] = c

\* Python's < on str: lexicographic by code point.
RECURSIVE StrLess(_, _)
StrLess(a, b) ==
  IF a = <<>> THEN b # <<>>
  ELSE IF b = <<>> THEN FALSE
  ELSE IF a[1] = b[1] THEN StrLess(Tail(a), Tail(b))
  ELSE Ord(a[1]) < Ord(b[1])

\* sorted(names) for a collection of distinct str.
RECURSIVE sorted(_)
sorted(S) ==
  IF S = {} THEN <<>>
  ELSE LET m == CHOOSE x \in S : \A y \in S \ {x} : StrLess(x, y)
       IN  <<m>> \o sorted(S \ {m})

StartsWith(s, p) == Len(p) <= Len(s) /\ SubSeq(s, 1, Len(p)) = p

\* str(n) for n >= 0.
RECURSIVE NatStr(_)
NatStr(n) == IF n < 10 THEN <<Digits[n + 1]>>
             ELSE NatStr(n \div 10) \o <<Digits[(n % 10) + 1]>>

\* n as exactly w digits, zero padded (n < 10^w).
RECURSIVE Pad(_, _)
Pad(n, w) == IF w = 0 THEN <<>> ELSE Pad(n \div 10, w - 1) \o <<Digits[(n % 10) + 1]>>

\* f'{val:.1f}' of a float given in tenths.
FormatF1(tenths) == NatStr(tenths \div 10) \o <<".">> \o Pad(tenths % 10, 1)

\* f'{val:,}' of an int.
RECURSIVE FormatComma(_)
FormatComma(n) == IF n < 1000 THEN NatStr(n)
                  ELSE FormatComma(n \div 1000) \o <<",">> \o Pad(n % 1000, 3)

----------------------------------------------------------------------------
(* Floats.  A float that results from arithmetic is held in units of 1e-7  *)
(* (a thousandth of the 1e-4 unit of the cost literals).  A float          *)
(* multiplication or division yields the exact result rounded to that      *)
(* unit and then off by at most one unit either way, which is far coarser  *)
(* than the rounding of an IEEE double.                                    *)

RoundErr == {-1, 0, 1}

\* x * 1000, x in units of 1e-4, the result in units of 1e-7.
FloatMul1000(x, e) == ((x * 1000) * 1000) + e

\* v / 1000, v and the result in units of 1e-7.
FloatDiv1000(v, e) == (v \div 1000) + e

\* f'{x:.4f}': x in units of 1e-7, rounded to the nearest 1e-4, ties to even.
FormatF4(x) ==
  LET q == x \div 1000
      r == x % 1000
      up == (r > 500) \/ (r = 500 /\ q % 2 = 1)
      n == IF up THEN q + 1 ELSE q
  IN  NatStr(n \div 10000) \o <<".">> \o Pad(n % 10000, 4)

----------------------------------------------------------------------------
(* The tables.  A dict is a sequence of <<key, value>> pairs in insertion  *)
(* order.                                                                  *)

keys(d) == [i \in 1..Len(d) |-> d[i][1]]

HasKey(d, k) == \E i \in 1..Len(d) : d[i][1] = k

Get(d, k) == d[CHOOSE i \in 1..Len(d) : d[i][1] = k][2]

COLORS ==
  << <<<<"m","a","n","i","f","e","s","t","o">>,   "#2ecc71">>,
     <<<<"o","p","e","n","a","i","-","m","i","n","i">>, "#3498db">>,
     <<<<"o","p","e","n","a","i","-","4","o">>,   "#2980b9">>,
     <<<<"r","e","a","c","t","-","m","i","n","i">>,  "#e74c3c">>,
     <<<<"r","e","a","c","t","-","4","o">>,    "#c0392b">> >>

\* OVERALL_DATA with the calls and tokens of ReAct-4o changed.
OVERALL_DATA_edited ==
  << <<<<"M","a","n","i","f","e","s","t","o">>,   [calls |-> 20, tokens |-> 850,  cost |-> 2,   latency |-> 23, success |-> 96]>>,
     <<<<"O","p","e","n","A","I","-","m","i","n","i">>, [calls |-> 56, tokens |-> 6113, cost |-> 10,  latency |-> 88, success |-> 98]>>,
     <<<<"O","p","e","n","A","I","-","4","o">>,   [calls |-> 39, tokens |-> 2366, cost |-> 131, latency |-> 27, success |-> 97]>>,
     <<<<"R","e","A","c","t","-","m","i","n","i">>,  [calls |-> 31, tokens |-> 2063, cost |-> 4,   latency |-> 43, success |-> 99]>>,
     <<<<"R","e","A","c","t","-","4","o">>,    [calls |-> 27, tokens |-> 1480, cost |-> 89,  latency |-> 26, success |-> 97]>> >>

\* The overall results per method.
OVERALL_DATA ==
  << <<<<"M","a","n","i","f","e","s","t","o">>,   [calls |-> 20, tokens |-> 850,  cost |-> 2,   latency |-> 23, success |-> 96]>>,
     <<<<"O","p","e","n","A","I","-","m","i","n","i">>, [calls |-> 56, tokens |-> 6113, cost |-> 10,  latency |-> 88, success |-> 98]>>,
     <<<<"O","p","e","n","A","I","-","4","o">>,   [calls |-> 39, tokens |-> 2366, cost |-> 131, latency |-> 27, success |-> 97]>>,
     <<<<"R","e","A","c","t","-","m","i","n","i">>,  [calls |-> 31, tokens |-> 2063, cost |-> 4,   latency |-> 43, success |-> 99]>>,
     <<<<"R","e","A","c","t","-","4","o">>,    [calls |-> 26, tokens |-> 1472, cost |-> 89,  latency |-> 26, success |-> 97]>> >>

CATEGORY_DATA ==
  << <<<<"S","i","m","p","l","e">>,
       << <<<<"M","a","n","i","f","e","s","t","o">>, 20>>, <<<<"O","p","e","n","A","I","-","m","i","n","i">>, 26>>, <<<<"O","p","e","n","A","I","-","4","o">>, 22>>, <<<<"R","e","A","c","t","-","m","i","n","i">>, 35>>, <<<<"R","e","A","c","t","-","4","o">>, 21>> >> >>,
     <<<<"M","u","l","t","i","-","f","i","e","l","d">>,
       << <<<<"M","a","n","i","f","e","s","t","o">>, 20>>, <<<<"O","p","e","n","A","I","-","m","i","n","i">>, 65>>, <<<<"O","p","e","n","A","I","-","4","o">>, 36>>, <<<<"R","e","A","c","t","-","m","i","n","i">>, 23>>, <<<<"R","e","A","c","t","-","4","o">>, 23>> >> >>,
     <<<<"C","o","n","t","e","x","t","u","a","l">>,
       << <<<<"M","a","n","i","f","e","s","t","o">>, 20>>, <<<<"O","p","e","n","A","I","-","m","i","n","i">>, 46>>, <<<<"O","p","e","n","A","I","-","4","o">>, 44>>, <<<<"R","e","A","c","t","-","m","i","n","i">>, 34>>, <<<<"R","e","A","c","t","-","4","o">>, 25>> >> >>,
     <<<<"B","u","l","k">>,
       << <<<<"M","a","n","i","f","e","s","t","o">>, 20>>, <<<<"O","p","e","n","A","I","-","m","i","n","i">>, 68>>, <<<<"O","p","e","n","A","I","-","4","o">>, 50>>, <<<<"R","e","A","c","t","-","m","i","n","i">>, 33>>, <<<<"R","e","A","c","t","-","4","o">>, 33>> >> >>,
     <<<<"E","x","c","e","p","t","i","o","n">>,
       << <<<<"M","a","n","i","f","e","s","t","o">>, 20>>, <<<<"O","p","e","n","A","I","-","m","i","n","i">>, 96>>, <<<<"O","p","e","n","A","I","-","4","o">>, 50>>, <<<<"R","e","A","c","t","-","m","i","n","i">>, 37>>, <<<<"R","e","A","c","t","-","4","o">>, 33>> >> >> >>

OUTPUT_DIR == <<"f","i","g","u","r","e","s">>

----------------------------------------------------------------------------
(* The figure builders.  Each is what the function does when called: the   *)
(* drawings it can put on its figure (one, except where float rounding     *)
(* enters), the two paths it saves to, and the line it prints.  Lengths    *)
(* are in tenths, bar offsets in hundredths.                               *)

Min(a, b) == IF a < b THEN a ELSE b

\* The bars of ax.bar(labels, heights, color=colors) with the value texts
\* annotated by zip(bars, heights), bars[0] highlighted afterwards.
Bars(labels, heights, colors, texts) ==
  [i \in 1..Min(Len(labels), Len(heights)) |->
     [label     |-> labels[i],
      height    |-> heights[i],
      color     |-> colors[((i - 1) % Len(colors)) + 1],
      text      |-> texts[i],
      edgecolor |-> IF i = 1 THEN "#27ae60" ELSE "black",
      linewidth |-> IF i = 1 THEN 30 ELSE 12]]

fig1_llm_calls_comparison ==
  LET methods == keys(OVERALL_DATA)
      calls   == [i \in 1..Len(methods) |-> Get(OVERALL_DATA, methods[i]).calls]
      colors  == <<"#2ecc71", "#3498db", "#2980b9", "#e74c3c", "#c0392b">>
      texts   == [i \in 1..Len(calls) |-> FormatF1(calls[i])]
  IN  [name    |-> <<"f","i","g","1","_","l","l","m","_","c","a","l","l","s","_","c","o","m","p","a","r","i","s","o","n">>,
       charts  |-> {[kind        |-> "bar",
                     bars        |-> Bars(methods, calls, colors, texts),
                     hline       |-> 20,
                     ylim        |-> <<0, 70>>,
                     titles      |-> <<"LLM Call Efficiency: Intent-Native vs Traditional Approaches">>,
                     annotations |-> <<<<"2",".","8","x"," ","f","e","w","e","r"," ","c","a","l","l","s">>>>]},
       savefig |-> <<OUTPUT_DIR \o <<"/","f","i","g","1","_","l","l","m","_","c","a","l","l","s","_","c","o","m","p","a","r","i","s","o","n",".","p","n","g">>,
                     OUTPUT_DIR \o <<"/","f","i","g","1","_","l","l","m","_","c","a","l","l","s","_","c","o","m","p","a","r","i","s","o","n",".","p","d","f">>>>,
       print   |-> <<"G","e","n","e","r","a","t","e","d",":"," ","f","i","g","1","_","l","l","m","_","c","a","l","l","s","_","c","o","m","p","a","r","i","s","o","n">>]

\* Series reading the first method's values for every method.
Series_first_method(categories, methods, colors) ==
  [i \in 1..Min(Len(methods), Len(colors)) |->
     [label  |-> methods[i],
      color  |-> colors[i],
      values |-> [j \in 1..Len(categories) |->
                    Get(Get(CATEGORY_DATA, categories[j]), methods[1])]]]

\* One series per (method, color) of zip(methods, colors), its values read
\* from CATEGORY_DATA category by category.
Series(categories, methods, colors) ==
  [i \in 1..Min(Len(methods), Len(colors)) |->
     [label  |-> methods[i],
      color  |-> colors[i],
      values |-> [j \in 1..Len(categories) |->
                    Get(Get(CATEGORY_DATA, categories[j]), methods[i])]]]

\* The paths of fig2_calls_by_category with the .png path copied from fig1.
fig2_savefig_copied ==
  <<OUTPUT_DIR \o <<"/","f","i","g","1","_","l","l","m","_","c","a","l","l","s","_","c","o","m","p","a","r","i","s","o","n",".","p","n","g">>,
    OUTPUT_DIR \o <<"/","f","i","g","2","_","c","a","l","l","s","_","b","y","_","c","a","t","e","g","o","r","y",".","p","d","f">>>>

\* The paths fig2_calls_by_category saves to.
fig2_savefig ==
  <<OUTPUT_DIR \o <<"/","f","i","g","2","_","c","a","l","l","s","_","b","y","_","c","a","t","e","g","o","r","y",".","p","n","g">>,
    OUTPUT_DIR \o <<"/","f","i","g","2","_","c","a","l","l","s","_","b","y","_","c","a","t","e","g","o","r","y",".","p","d","f">>>>

fig2_calls_by_category ==
  LET categories == keys(CATEGORY_DATA)
      x          == [j \in 1..Len(categories) |-> j - 1]
      methods    == <<<<"M","a","n","i","f","e","s","t","o">>, <<"O","p","e","n","A","I","-","m","i","n","i">>, <<"O","p","e","n","A","I","-","4","o">>, <<"R","e","A","c","t","-","m","i","n","i">>, <<"R","e","A","c","t","-","4","o">>>>
      colors     == <<"#2ecc71", "#3498db", "#2980b9", "#e74c3c", "#c0392b">>
      series     == Series(categories, methods, colors)
  IN  [name    |-> <<"f","i","g","2","_","c","a","l","l","s","_","b","y","_","c","a","t","e","g","o","r","y">>,
       charts  |-> {[kind        |-> "grouped-bar",
                     series      |-> [i \in DOMAIN series |->
                                        [label     |-> series[i].label,
                                         color     |-> series[i].color,
                                         values    |-> series[i].values,
                                         offset    |-> (i - 1 - 2) * 15,
                                         edgecolor |-> IF series[i].label = <<"M","a","n","i","f","e","s","t","o">>
                                                       THEN "#27ae60" ELSE "black"]],
                     xticks      |-> x,
                     xticklabels |-> categories,
                     hline       |-> 20,
                     ylim        |-> <<0, 110>>,
                     titles      |-> <<"Scaling Behavior: Manifesto Maintains Constant Calls Across Complexity Levels">>,
                     annotations |-> <<<<"M","a","n","i","f","e","s","t","o",":"," ","O","(","1",")"," ","="," ","2"," ","c","a","l","l","s">>, <<>>, <<"4",".","8","x","\n","g","a","p">>, <<>>>>]},
       savefig |-> fig2_savefig,
       print   |-> <<"G","e","n","e","r","a","t","e","d",":"," ","f","i","g","2","_","c","a","l","l","s","_","b","y","_","c","a","t","e","g","o","r","y">>]

\* Every way of choosing one element of choices[i] for each i in 1..n.
RECURSIVE Choices(_, _)
Choices(choices, n) ==
  IF n = 0 THEN {<<>>}
  ELSE {Append(s, c) : s \in Choices(choices, n - 1), c \in choices[n]}

\* CostText without the division by 1000.
CostText_unscaled(val, e) == <<"$">> \o FormatF4(val + e)

\* The value text of a cost bar of height val: f'${val/1000:.4f}'.
CostText(val, e) == <<"$">> \o FormatF4(FloatDiv1000(val, e))

fig3_cost_comparison ==
  LET methods == keys(OVERALL_DATA)
      colors  == <<"#2ecc71", "#3498db", "#2980b9", "#e74c3c", "#c0392b">>
      \* what OVERALL_DATA[m]['cost'] * 1000 and its value text can come to
      outcomes == [i \in 1..Len(methods) |->
                     {[cost |-> FloatMul1000(Get(OVERALL_DATA, methods[i]).cost, e),
                       text |-> CostText(FloatMul1000(Get(OVERALL_DATA, methods[i]).cost, e), d)]
                        : e \in RoundErr, d \in RoundErr}]
  IN  [name    |-> <<"f","i","g","3","_","c","o","s","t","_","c","o","m","p","a","r","i","s","o","n">>,
       charts  |-> {[kind        |-> "bar",
                     bars        |-> Bars(methods,
                                          [i \in 1..Len(o) |-> o[i].cost],
                                          colors,
                                          [i \in 1..Len(o) |-> o[i].text]),
                     titles      |-> <<"Cost Efficiency: Manifesto is 44x Cheaper than GPT-4o Methods">>,
                     annotations |-> <<<<"4","4","x"," ","c","h","e","a","p","e","r","\n","t","h","a","n"," ","R","e","A","c","t","-","4","o">>>>]
                      : o \in Choices(outcomes, Len(methods))},
       savefig |-> <<OUTPUT_DIR \o <<"/","f","i","g","3","_","c","o","s","t","_","c","o","m","p","a","r","i","s","o","n",".","p","n","g">>,
                     OUTPUT_DIR \o <<"/","f","i","g","3","_","c","o","s","t","_","c","o","m","p","a","r","i","s","o","n",".","p","d","f">>>>,
       print   |-> <<"G","e","n","e","r","a","t","e","d",":"," ","f","i","g","3","_","c","o","s","t","_","c","o","m","p","a","r","i","s","o","n">>]

fig4_token_efficiency ==
  LET methods == keys(OVERALL_DATA)
      tokens  == [i \in 1..Len(methods) |-> Get(OVERALL_DATA, methods[i]).tokens]
      colors  == <<"#2ecc71", "#3498db", "#2980b9", "#e74c3c", "#c0392b">>
      texts   == [i \in 1..Len(tokens) |-> FormatComma(tokens[i])]
  IN  [name    |-> <<"f","i","g","4","_","t","o","k","e","n","_","e","f","f","i","c","i","e","n","c","y">>,
       charts  |-> {[kind        |-> "bar",
                     bars        |-> Bars(methods, tokens, colors, texts),
                     titles      |-> <<"Token Efficiency: Manifesto Uses 7x Fewer Tokens">>,
                     annotations |-> <<<<"7","x"," ","f","e","w","e","r"," ","t","o","k","e","n","s","\n","v","s"," ","O","p","e","n","A","I","-","m","i","n","i">>>>]},
       savefig |-> <<OUTPUT_DIR \o <<"/","f","i","g","4","_","t","o","k","e","n","_","e","f","f","i","c","i","e","n","c","y",".","p","n","g">>,
                     OUTPUT_DIR \o <<"/","f","i","g","4","_","t","o","k","e","n","_","e","f","f","i","c","i","e","n","c","y",".","p","d","f">>>>,
       print   |-> <<"G","e","n","e","r","a","t","e","d",":"," ","f","i","g","4","_","t","o","k","e","n","_","e","f","f","i","c","i","e","n","c","y">>]

fig5_architecture_comparison ==
  LET boxes_trad ==
        << <<10, 100, "User Input", "#ecf0f1">>,
           <<10, 85, "LLM: Thought 1", "#e74c3c">>,
           <<10, 70, "LLM: Action 1", "#e74c3c">>,
           <<10, 55, "LLM: Thought 2", "#e74c3c">>,
           <<10, 40, "LLM: Action 2", "#e74c3c">>,
           <<10, 25, "...", "#bdc3c7">>,
           <<10, 10, "LLM: Response", "#e74c3c">> >>
      boxes_intent ==
        << <<10, 100, "User Input", "#ecf0f1">>,
           <<10, 75, "LLM 1: Intent Parser", "#2ecc71">>,
           <<10, 50, "Deterministic Runtime", "#3498db">>,
           <<10, 25, "LLM 2: Response Gen", "#2ecc71">> >>
  IN  [name    |-> <<"f","i","g","5","_","a","r","c","h","i","t","e","c","t","u","r","e","_","c","o","m","p","a","r","i","s","o","n">>,
       charts  |-> {[kind   |-> "schematic",
                     titles |-> <<"Traditional Agent (ReAct)", "Intent-Native (Manifesto)">>,
                     left   |-> [boxes   |-> [i \in 1..Len(boxes_trad) |->
                                               [y         |-> boxes_trad[i][2],
                                                text      |-> boxes_trad[i][3],
                                                facecolor |-> boxes_trad[i][4],
                                                textcolor |-> IF boxes_trad[i][4] = "#e74c3c"
                                                              THEN "white" ELSE "black"]],
                                arrows  |-> Len(boxes_trad) - 1,
                                caption |-> "N LLM Calls (N = task complexity)"],
                     right  |-> [boxes   |-> [i \in 1..Len(boxes_intent) |->
                                               [y         |-> boxes_intent[i][2],
                                                text      |-> boxes_intent[i][3],
                                                facecolor |-> boxes_intent[i][4],
                                                textcolor |-> "white"]],
                                arrows  |-> 3,
                                caption |-> "2 LLM Calls (constant, always)"]]},
       savefig |-> <<OUTPUT_DIR \o <<"/","f","i","g","5","_","a","r","c","h","i","t","e","c","t","u","r","e","_","c","o","m","p","a","r","i","s","o","n",".","p","n","g">>,
                     OUTPUT_DIR \o <<"/","f","i","g","5","_","a","r","c","h","i","t","e","c","t","u","r","e","_","c","o","m","p","a","r","i","s","o","n",".","p","d","f">>>>,
       print   |-> <<"G","e","n","e","r","a","t","e","d",":"," ","f","i","g","5","_","a","r","c","h","i","t","e","c","t","u","r","e","_","c","o","m","p","a","r","i","s","o","n">>]

\* The colors of fig6_scaling_line with the two OpenAI colors exchanged.
fig6_colors_swapped == <<"#2ecc71", "#2980b9", "#3498db", "#e74c3c", "#c0392b">>

\* The colors list of fig6_scaling_line.
fig6_colors == <<"#2ecc71", "#3498db", "#2980b9", "#e74c3c", "#c0392b">>

fig6_scaling_line ==
  LET categories == keys(CATEGORY_DATA)
      x          == [j \in 1..Len(categories) |-> j - 1]
      methods    == <<<<"M","a","n","i","f","e","s","t","o">>, <<"O","p","e","n","A","I","-","m","i","n","i">>, <<"O","p","e","n","A","I","-","4","o">>, <<"R","e","A","c","t","-","m","i","n","i">>, <<"R","e","A","c","t","-","4","o">>>>
      colors     == fig6_colors
      markers    == <<"o", "s", "s", "^", "^">>
      linestyles == <<"-", "-", "--", "-", "--">>
      n          == Min(Min(Len(methods), Len(colors)), Min(Len(markers), Len(linestyles)))
      series     == Series(categories, SubSeq(methods, 1, n), colors)
  IN  [name    |-> <<"f","i","g","6","_","s","c","a","l","i","n","g","_","l","i","n","e">>,
       charts  |-> {[kind        |-> "line",
                     series      |-> [i \in DOMAIN series |->
                                        [label      |-> series[i].label,
                                         color      |-> series[i].color,
                                         values     |-> series[i].values,
                                         marker     |-> markers[i],
                                         linestyle  |-> linestyles[i],
                                         linewidth  |-> IF series[i].label = <<"M","a","n","i","f","e","s","t","o">> THEN 40 ELSE 20,
                                         markersize |-> IF series[i].label = <<"M","a","n","i","f","e","s","t","o">> THEN 120 ELSE 80]],
                     xticks      |-> x,
                     xticklabels |-> categories,
                     ylim        |-> <<0, 110>>,
                     titles      |-> <<"Scaling Behavior: O(1) vs O(n)">>,
                     annotations |-> <<<<"4",".","8","x"," ","g","a","p">>, <<"O","(","1",")">>, <<"O","(","n",")">>>>]},
       savefig |-> <<OUTPUT_DIR \o <<"/","f","i","g","6","_","s","c","a","l","i","n","g","_","l","i","n","e",".","p","n","g">>,
                     OUTPUT_DIR \o <<"/","f","i","g","6","_","s","c","a","l","i","n","g","_","l","i","n","e",".","p","d","f">>>>,
       print   |-> <<"G","e","n","e","r","a","t","e","d",":"," ","f","i","g","6","_","s","c","a","l","i","n","g","_","l","i","n","e">>]

fig7_summary_table ==
  LET columns == <<<<"M","e","t","h","o","d">>, <<"L","L","M"," ","C","a","l","l","s">>, <<"T","o","k","e","n","s">>, <<"C","o","s","t","/","T","a","s","k">>, <<"S","u","c","c","e","s","s">>, <<"C","o","m","p","l","e","x","i","t","y">>>>
      rows ==
        << <<<<"M","a","n","i","f","e","s","t","o"," ","(","O","u","r","s",")">>, <<"2",".","0">>, <<"8","5","0">>,   <<"$","0",".","0","0","0","2">>, <<"9","6","%">>, <<"O","(","1",")">>>>,
           <<<<"O","p","e","n","A","I","-","m","i","n","i">>,      <<"5",".","6">>, <<"6",",","1","1","3">>, <<"$","0",".","0","0","1","0">>, <<"9","8","%">>, <<"O","(","n",")">>>>,
           <<<<"O","p","e","n","A","I","-","4","o">>,        <<"3",".","9">>, <<"2",",","3","6","6">>, <<"$","0",".","0","1","3","1">>, <<"9","7","%">>, <<"O","(","n",")">>>>,
           <<<<"R","e","A","c","t","-","m","i","n","i">>,       <<"3",".","1">>, <<"2",",","0","6","3">>, <<"$","0",".","0","0","0","4">>, <<"9","9","%">>, <<"O","(","n",")">>>>,
           <<<<"R","e","A","c","t","-","4","o">>,         <<"2",".","6">>, <<"1",",","4","7","2">>, <<"$","0",".","0","0","8","9">>, <<"9","7","%">>, <<"O","(","n",")">>>> >>
  IN  [name    |-> <<"f","i","g","7","_","s","u","m","m","a","r","y","_","t","a","b","l","e">>,
       \* table[(0, i)] is the header, table[(r, i)] with r >= 1 is rows[r - 1]
       charts  |-> {[kind        |-> "table",
                     colLabels   |-> columns,
                     cellText    |-> rows,
                     colColours  |-> [i \in 1..Len(columns) |-> "#34495e"],
                     header      |-> {<<0, i - 1>> : i \in 1..Len(columns)},
                     highlighted |-> {<<1, i - 1>> : i \in 1..Len(columns)},
                     titles      |-> <<"Experimental Results Summary (500 runs on TaskBench-100)">>]},
       savefig |-> <<OUTPUT_DIR \o <<"/","f","i","g","7","_","s","u","m","m","a","r","y","_","t","a","b","l","e",".","p","n","g">>,
                     OUTPUT_DIR \o <<"/","f","i","g","7","_","s","u","m","m","a","r","y","_","t","a","b","l","e",".","p","d","f">>>>,
       print   |-> <<"G","e","n","e","r","a","t","e","d",":"," ","f","i","g","7","_","s","u","m","m","a","r","y","_","t","a","b","l","e">>]

----------------------------------------------------------------------------
(* The program *)

\* main with ensure_output_dir called after the first builder.
main_ensure_late ==
  << [op |-> "print", text |-> <<"\n","G","e","n","e","r","a","t","i","n","g"," ","I","C","M","L"," ","2","0","2","6"," ","P","a","p","e","r"," ","F","i","g","u","r","e","s",".",".",".","\n">>],
     [op |-> "figure", fig |-> fig1_llm_calls_comparison],
     [op |-> "ensure_output_dir"],
     [op |-> "figure", fig |-> fig2_calls_by_category],
     [op |-> "figure", fig |-> fig3_cost_comparison],
     [op |-> "figure", fig |-> fig4_token_efficiency],
     [op |-> "figure", fig |-> fig5_architecture_comparison],
     [op |-> "figure", fig |-> fig6_scaling_line],
     [op |-> "figure", fig |-> fig7_summary_table],
     [op |-> "print_summary"],
     [op |-> "print_listing"] >>

\* main(): the statements in order.
main ==
  << [op |-> "ensure_output_dir"],
     [op |-> "print", text |-> <<"\n","G","e","n","e","r","a","t","i","n","g"," ","I","C","M","L"," ","2","0","2","6"," ","P","a","p","e","r"," ","F","i","g","u","r","e","s",".",".",".","\n">>],
     [op |-> "figure", fig |-> fig1_llm_calls_comparison],
     [op |-> "figure", fig |-> fig2_calls_by_category],
     [op |-> "figure", fig |-> fig3_cost_comparison],
     [op |-> "figure", fig |-> fig4_token_efficiency],
     [op |-> "figure", fig |-> fig5_architecture_comparison],
     [op |-> "figure", fig |-> fig6_scaling_line],
     [op |-> "figure", fig |-> fig7_summary_table],
     [op |-> "print_summary"],
     [op |-> "print_listing"] >>

\* Body without plt.close().
Body_no_close ==
  << [op |-> "draw"],
     [op |-> "savefig", arg |-> 1],
     [op |-> "savefig", arg |-> 2],
     [op |-> "print"] >>

\* Body with the progress line printed before the figure is saved.
Body_print_first ==
  << [op |-> "draw"],
     [op |-> "print"],
     [op |-> "savefig", arg |-> 1],
     [op |-> "savefig", arg |-> 2],
     [op |-> "close"] >>

\* The statements of every builder: its drawing, the two savefig calls (by
\* index into the builder's paths), close, print.
Body ==
  << [op |-> "draw"],
     [op |-> "savefig", arg |-> 1],
     [op |-> "savefig", arg |-> 2],
     [op |-> "close"],
     [op |-> "print"] >>

\* The paths that may be present before the run, and how many of them at most.
MaxPreexisting == 3

PreCandidates ==
  << OUTPUT_DIR \o <<"/","n","o","t","e","s",".","t","x","t">>,
     OUTPUT_DIR \o <<"/","f","i","g","1","_","l","l","m","_","c","a","l","l","s","_","c","o","m","p","a","r","i","s","o","n",".","p","n","g">>,
     OUTPUT_DIR \o <<"/","f","i","g","7","_","s","u","m","m","a","r","y","_","t","a","b","l","e",".","p","d","f">>,
     OUTPUT_DIR \o <<"/","R","E","A","D","M","E",".","m","d">>,
     OUTPUT_DIR \o <<"/","f","i","g","3","_","c","o","s","t","_","c","o","m","p","a","r","i","s","o","n",".","p","d","f">>,
     OUTPUT_DIR \o <<"/","f","i","g","8","_","d","r","a","f","t",".","p","n","g">> >>

Preexisting ==
  {PreCandidates[i] : i \in 1..Min(MaxPreexisting, Len(PreCandidates))}

\* What a file holds: something left by an earlier run or by someone else,
\* an image savefig wrote in this run, or what a failed savefig left behind.
Stale == [kind |-> "stale"]

\* An image is told apart by its format and the titles the figure shows.
Image(fmt, chart) == [kind |-> "image", format |-> fmt, titles |-> chart.titles]

Partial == [kind |-> "partial"]

VARIABLES
  pc,       \* index of main's current statement; Len(main) + 1 once main has returned
  ip,       \* index of the current builder's statement in Body; 0 outside a builder
  exc,      \* the exception that ended the run, "none" while there is none
  dir,      \* OUTPUT_DIR on disk: "absent", "dir", or "file" (a non-directory)
  files,    \* the files on disk: path -> content
  figs,     \* pyplot's open figures, the current one last
  console,  \* the text of each print call so far
  trace,    \* history: what the run has done so far, each event with the
            \* index of main's statement it belongs to
  pre       \* history: the paths present when the run started

vars == <<pc, ip, exc, dir, files, figs, console, trace, pre>>

Init ==
  /\ pc = 1
  /\ ip = 0
  /\ exc = "none"
  /\ dir \in {"absent", "file", "dir"}
  /\ pre \in IF dir = "dir" THEN SUBSET Preexisting ELSE {{}}
  /\ files = [p \in pre |-> Stale]
  /\ figs = <<>>
  /\ console = <<>>
  /\ trace = <<>>

Running == exc = "none" /\ pc \in DOMAIN main

Returned == exc = "none" /\ pc = Len(main) + 1

At(op) == Running /\ ip = 0 /\ main[pc].op = op

In(op) == Running /\ ip \in DOMAIN Body /\ main[pc].op = "figure" /\ Body[ip].op = op

Log(events) == trace' = trace \o events

\* Raise with a handler around each statement of main: the run goes on.
Raise_handled_per_figure(e) ==
  /\ exc' = "none"
  /\ pc' = pc + 1
  /\ ip' = 0

\* An exception raised anywhere: neither the builders nor main handle any,
\* so it ends the run where it is.
Raise(e) ==
  /\ exc' = e
  /\ UNCHANGED <<pc, ip>>

\* The next statement of main.
Next_statement == pc' = pc + 1 /\ ip' = 0 /\ exc' = exc

\* The next statement of the builder, or its return to main after the last.
Step ==
  IF ip = Len(Body)
  THEN /\ Next_statement
       /\ Log(<<[ev |-> Body[ip].op, pc |-> pc], [ev |-> "return", pc |-> pc]>>)
  ELSE /\ ip' = ip + 1
       /\ UNCHANGED <<pc, exc>>
       /\ Log(<<[ev |-> Body[ip].op, pc |-> pc]>>)

\* makedirs without exist_ok=True.
makedirs_no_exist_ok(d) ==
  CASE d = "dir"    -> {[dir |-> "dir", exc |-> "FileExistsError"]}
    [] d = "file"   -> {[dir |-> "file", exc |-> "FileExistsError"]}
    [] d = "absent" -> {[dir |-> "dir", exc |-> "none"],
                        [dir |-> "absent", exc |-> "OSError"]}

\* os.makedirs(OUTPUT_DIR, exist_ok=True) on a directory in state d: what
\* the directory is afterwards, and the exception raised if any.
makedirs(d) ==
  CASE d = "dir"    -> {[dir |-> "dir", exc |-> "none"]}
    [] d = "file"   -> {[dir |-> "file", exc |-> "FileExistsError"]}
    [] d = "absent" -> {[dir |-> "dir", exc |-> "none"],
                        [dir |-> "absent", exc |-> "OSError"]}

ensure_output_dir ==
  /\ At("ensure_output_dir")
  /\ \E o \in makedirs(dir) :
       /\ dir' = o.dir
       /\ IF o.exc = "none"
          THEN Next_statement /\ Log(<<[ev |-> "ensure_output_dir", pc |-> pc]>>)
          ELSE Raise(o.exc) /\ Log(<<[ev |-> "raise", in |-> "ensure_output_dir", pc |-> pc]>>)
  /\ UNCHANGED <<files, figs, console, pre>>

PrintBanner ==
  /\ At("print")
  /\ console' = Append(console, main[pc].text)
  /\ Next_statement
  /\ Log(<<[ev |-> "print", pc |-> pc]>>)
  /\ UNCHANGED <<dir, files, figs, pre>>

\* main calls a builder.
Call ==
  /\ At("figure")
  /\ ip' = 1
  /\ Log(<<[ev |-> "call", pc |-> pc]>>)
  /\ UNCHANGED <<pc, exc, dir, files, figs, console, pre>>

\* plt.subplots(...) opens a figure and makes it current; the builder draws on it.
Draw ==
  /\ In("draw")
  /\ \E chart \in main[pc].fig.charts : figs' = Append(figs, chart)
  /\ Step
  /\ UNCHANGED <<dir, files, console, pre>>

\* The format savefig writes is the path's extension.
RECURSIVE Ext(_)
Ext(path) ==
  IF path = <<>> THEN <<>>
  ELSE IF \E i \in 2..Len(path) : path[i] = "." THEN Ext(Tail(path))
  ELSE IF path[1] = "." THEN Tail(path)
  ELSE <<>>

\* plt.gcf(): the current figure, a new empty one if none is open.
Blank == [kind |-> "blank", titles |-> <<>>]

Gcf(fs) == IF fs = <<>> THEN <<Blank>> ELSE fs

\* plt.savefig(path) writes the current figure, replacing what path held.
Savefig ==
  /\ In("savefig")
  /\ dir = "dir"
  /\ LET path == main[pc].fig.savefig[Body[ip].arg]
         fs   == Gcf(figs)
     IN  /\ figs' = fs
         /\ files' = [p \in DOMAIN files \cup {path} |->
                        IF p = path THEN Image(Ext(path), fs[Len(fs)]) ELSE files[p]]
         /\ Log(<<[ev |-> "savefig", pc |-> pc, path |-> path]>>)
  /\ ip' = ip + 1
  /\ UNCHANGED <<pc, exc, dir, console, pre>>

\* plt.savefig(path) fails (no directory, disk full, permission denied): the
\* file is left as it was, or truncated and partly written.
SavefigFails ==
  /\ In("savefig")
  /\ LET path == main[pc].fig.savefig[Body[ip].arg]
     IN  /\ \/ files' = files
            \/ /\ dir = "dir"
               /\ files' = [p \in DOMAIN files \cup {path} |->
                              IF p = path THEN Partial ELSE files[p]]
         /\ Log(<<[ev |-> "raise", in |-> "savefig", pc |-> pc]>>)
  /\ figs' = Gcf(figs)
  /\ Raise("OSError")
  /\ UNCHANGED <<dir, console, pre>>

\* plt.close() closes the current figure.
Close ==
  /\ In("close")
  /\ figs' = SubSeq(figs, 1, Len(figs) - 1)
  /\ Step
  /\ UNCHANGED <<dir, files, console, pre>>

\* print("Generated: <name>"); the check mark that starts the line is left out.
PrintGenerated ==
  /\ In("print")
  /\ console' = Append(console, main[pc].fig.print)
  /\ Step
  /\ UNCHANGED <<dir, files, figs, pre>>

PrintSummary ==
  /\ At("print_summary")
  /\ console' = console \o <<<<"\n","A","l","l"," ","f","i","g","u","r","e","s"," ","s","a","v","e","d"," ","t","o"," ">> \o OUTPUT_DIR \o <<"/">>,
                             <<"\n","G","e","n","e","r","a","t","e","d"," ","f","i","l","e","s",":">>>>
  /\ Next_statement
  /\ Log(<<[ev |-> "print_summary", pc |-> pc]>>)
  /\ UNCHANGED <<dir, files, figs, pre>>

\* os.listdir(d): the names of the files directly under d.
listdir(d) ==
  {SubSeq(p, Len(d) + 2, Len(p)) : p \in {q \in DOMAIN files : StartsWith(q, d \o <<"/">>)}}

\* for f in sorted(os.listdir(OUTPUT_DIR)): print(f"  - {f}")
PrintListing ==
  /\ At("print_listing")
  /\ IF dir = "dir"
     THEN LET names == sorted(listdir(OUTPUT_DIR))
          IN  /\ console' = console \o [i \in 1..Len(names) |-> <<" "," ","-"," ">> \o names[i]]
              /\ Next_statement
              /\ Log(<<[ev |-> "print_listing", pc |-> pc]>>)
     ELSE /\ console' = console
          /\ Raise("OSError")
          /\ Log(<<[ev |-> "raise", in |-> "listdir", pc |-> pc]>>)
  /\ UNCHANGED <<dir, files, figs, pre>>

Next ==
  \/ ensure_output_dir
  \/ PrintBanner
  \/ Call
  \/ Draw
  \/ Savefig
  \/ SavefigFails
  \/ Close
  \/ PrintGenerated
  \/ PrintSummary
  \/ PrintListing

Spec == Init /\ [][Next]_vars

----------------------------------------------------------------------------
(* What the properties below speak of *)

Range(s) == {s[i] : i \in DOMAIN s}

\* The indices of main's statements that call a builder.
FigureStatements == {q \in DOMAIN main : main[q].op = "figure"}

\* The indices of the trace's events of one kind.
Events(ev) == {i \in DOMAIN trace : trace[i].ev = ev}

Raised(where) == {i \in Events("raise") : trace[i].in = where}

\* The paths savefig has written in this run, for one statement of main or for all.
SavedBy(q) == {trace[i].path : i \in {j \in Events("savefig") : trace[j].pc = q}}

Saved == {trace[i].path : i \in Events("savefig")}

\* The name of the file at a path under OUTPUT_DIR.
FileName(path) == SubSeq(path, Len(OUTPUT_DIR) + 2, Len(path))

Untouched == files = [p \in pre |-> Stale]

\* The figure the builder at main's current statement has open.
Drawing(name) ==
  /\ figs # <<>>
  /\ pc \in FigureStatements
  /\ main[pc].fig.name = name

----------------------------------------------------------------------------
\* C1: no figure file is written, and no builder is invoked, before
\* ensure_output_dir has completed; if creating the directory fails the run
\* is aborted there: no builder is invoked and no file is written.
C1_DirectoryBeforeFigures ==
  /\ \A i \in DOMAIN trace :
       trace[i].ev \in {"call", "draw", "savefig"}
         => \E j \in 1..(i - 1) : trace[j].ev = "ensure_output_dir"
  /\ Events("ensure_output_dir") = {} => Untouched
  /\ Raised("ensure_output_dir") # {}
       => /\ exc # "none"
          /\ Events("call") = {}
          /\ Untouched
          /\ trace[Len(trace)].ev = "raise"

C1_Witness ==
  /\ Raised("ensure_output_dir") # {}
  /\ dir = "absent"

----------------------------------------------------------------------------
\* C2, as claimed: when writing a file of figure k fails, the run is not
\* aborted (only figure k is), and the later builders still run.
C2_Original_RunContinues ==
  Raised("savefig") # {} => exc = "none"

\* C2, amended: when writing a file of figure k fails, the exception is not
\* caught: the run is aborted at that savefig, no later builder is invoked,
\* no further file is written and nothing more is printed.
C2_WriteFailureAbortsRun ==
  \A i \in Raised("savefig") :
    /\ exc = "OSError"
    /\ i = Len(trace)
    /\ pc = trace[i].pc
    /\ \A j \in Events("call") : trace[j].pc <= pc
    /\ \A q \in FigureStatements :
         q > pc => /\ SavedBy(q) = {}
                   /\ \A c \in Range(console) : c # main[q].fig.print
    /\ \A c \in Range(console) : c # main[pc].fig.print /\ ~StartsWith(c, <<" "," ","-"," ">>)
    /\ \A p \in DOMAIN files : files[p].kind = "image" => p \in Saved

C2_Witness ==
  /\ Raised("savefig") # {}
  /\ Events("return") # {}
  /\ \E p \in DOMAIN files : files[p] = Partial

----------------------------------------------------------------------------
\* C3: a builder that has completed, the k-th that main calls, has written
\* exactly two files, OUTPUT_DIR/<name>.png and OUTPUT_DIR/<name>.pdf, <name>
\* its own name, which starts with fig<k>_; a run that returns, started on an
\* empty directory, leaves exactly those 14 files.
C3_TwoFilesPerBuilder ==
  /\ \A i \in Events("return") :
       LET q    == trace[i].pc
           name == main[q].fig.name
           k    == Cardinality({j \in Events("call") : j < i})
           png  == OUTPUT_DIR \o <<"/">> \o name \o <<".","p","n","g">>
           pdf  == OUTPUT_DIR \o <<"/">> \o name \o <<".","p","d","f">>
       IN  /\ StartsWith(name, <<"f","i","g">> \o NatStr(k) \o <<"_">>)
           /\ SavedBy(q) = {png, pdf}
           /\ Cardinality({j \in Events("savefig") : trace[j].pc = q}) = 2
           /\ files[png].kind = "image" /\ files[png].format = <<"p","n","g">>
           /\ files[pdf].kind = "image" /\ files[pdf].format = <<"p","d","f">>
  /\ (Returned /\ pre = {})
       => /\ Cardinality(DOMAIN files) = 14
          /\ DOMAIN files =
               {OUTPUT_DIR \o <<"/">> \o main[q].fig.name \o ext :
                  q \in FigureStatements, ext \in {<<".","p","n","g">>, <<".","p","d","f">>}}
          /\ \A k \in 1..7 : \E q \in FigureStatements :
               StartsWith(main[q].fig.name, <<"f","i","g">> \o NatStr(k) \o <<"_">>)

C3_Witness ==
  /\ Returned
  /\ pre = {}
  /\ Cardinality(Events("return")) = 7

----------------------------------------------------------------------------
\* C4: the builders run one at a time in the order fig1 .. fig7; each draws,
\* saves its .png, then its .pdf, then closes its figure before it returns and
\* the next is called; at most one figure is open at any point, and none when
\* main has returned.
C4_OneFigureAtATime ==
  LET InBuilder(e) == main[e.pc].op = "figure" /\ e.ev # "raise"
      b     == SelectSeq(trace, InBuilder)
      slots == <<"call", "draw", "savefig", "savefig", "close", "print", "return">>
  IN  /\ Len(figs) <= 1
      /\ Returned => figs = <<>> /\ Len(b) = 7 * Len(slots)
      /\ \A n \in DOMAIN b :
           LET k    == ((n - 1) \div Len(slots)) + 1
               slot == ((n - 1) % Len(slots)) + 1
           IN  /\ b[n].ev = slots[slot]
               /\ StartsWith(main[b[n].pc].fig.name, <<"f","i","g">> \o NatStr(k) \o <<"_">>)
               /\ slot = 3 => Ext(b[n].path) = <<"p","n","g">>
               /\ slot = 4 => Ext(b[n].path) = <<"p","d","f">>
      /\ \A i \in Events("call") : i = 1 \/ trace[i - 1].ev \in {"print", "return"}
      /\ (ip = 0 \/ In("draw")) => figs = <<>>

C4_Witness ==
  /\ Len(figs) = 1
  /\ Cardinality(Events("return")) = 3
  /\ In("close")

----------------------------------------------------------------------------
\* C5: when the output directory exists and is not empty as the run starts,
\* ensure_output_dir raises nothing, and every file that was there under the
\* path of an artifact holds, once the run has saved that artifact, the image
\* rendered in this run; by the time main returns that is every such file.
C5_PreexistingDirectory ==
  pre # {} =>
    /\ Raised("ensure_output_dir") = {}
    /\ \A q \in FigureStatements : \A a \in DOMAIN main[q].fig.savefig :
         LET path == main[q].fig.savefig[a]
         IN  (path \in pre /\ (path \in SavedBy(q) \/ Returned))
               => /\ path \in DOMAIN files
                  /\ \E chart \in main[q].fig.charts : files[path] = Image(Ext(path), chart)
                  /\ files[path] # Stale

C5_Witness ==
  /\ Returned
  /\ \E q \in FigureStatements : main[q].fig.savefig[1] \in pre
  /\ \E p \in pre : p \notin Saved

----------------------------------------------------------------------------
\* str.lower() on the letters that occur in the method names.
UpperCase == <<"A","B","C","D","E","F","G","H","I","J","K","L","M",
               "N","O","P","Q","R","S","T","U","V","W","X","Y","Z">>

LowerCase == <<"a","b","c","d","e","f","g","h","i","j","k","l","m",
               "n","o","p","q","r","s","t","u","v","w","x","y","z">>

Lower(s) ==
  [i \in 1..Len(s) |->
     IF \E u \in DOMAIN UpperCase : UpperCase[u] = s[i]
     THEN LowerCase[CHOOSE u \in DOMAIN UpperCase : UpperCase[u] = s[i]]
     ELSE s[i]]

\* The method names the tables refer to.
MethodNames ==
  Range(keys(OVERALL_DATA))
    \cup UNION {Range(keys(CATEGORY_DATA[c][2])) : c \in DOMAIN CATEGORY_DATA}

\* The series of a chart that stand for methods, each with its label and color.
Plotted(chart) ==
  IF chart.kind = "bar" THEN Range(chart.bars)
  ELSE IF chart.kind \in {"grouped-bar", "line"} THEN Range(chart.series)
  ELSE {}

\* C6, as claimed: every method name is a key of COLORS, and a figure that
\* plots a method draws it in the color COLORS holds for it.
C6_Original_NamesAreColorKeys ==
  /\ \A m \in MethodNames : HasKey(COLORS, m)
  /\ \A chart \in Range(figs) : \A s \in Plotted(chart) :
       HasKey(COLORS, s.label) /\ s.color = Get(COLORS, s.label)

\* C6, amended: every method name, lowercased, is a key of COLORS (no method
\* name is a key as it is written), and every figure that plots a method
\* draws it in one and the same color, the one COLORS holds for the
\* lowercased name.
C6_LowercasedNamesAreColorKeys ==
  /\ \A m \in MethodNames : HasKey(COLORS, Lower(m)) /\ ~HasKey(COLORS, m)
  /\ \A chart \in Range(figs) : \A s \in Plotted(chart) :
       /\ s.label \in MethodNames
       /\ s.color = Get(COLORS, Lower(s.label))
  /\ \A chart \in Range(figs) :
       chart.kind \in {"bar", "grouped-bar", "line"}
         => {s.label : s \in Plotted(chart)} = MethodNames

C6_Witness ==
  /\ Drawing(<<"f","i","g","6","_","s","c","a","l","i","n","g","_","l","i","n","e">>)
  /\ figs[Len(figs)].kind = "line"
  /\ Cardinality(Events("return")) = 5

----------------------------------------------------------------------------
\* C7: the console holds exactly one progress line for every figure whose
\* builder has completed and none for any other, each printed only after both
\* files of its figure were saved; when main has returned the console ends
\* with the listing, which comes after every progress line and contains the
\* name of every file this run has written.
C7_ProgressLinesAndListing ==
  LET IsEntry(c) == StartsWith(c, <<" "," ","-"," ">>)
      Count(line) == Cardinality({i \in DOMAIN console : console[i] = line})
  IN  /\ \A q \in FigureStatements :
           LET fig == main[q].fig
               completed == \E i \in Events("return") : trace[i].pc = q
           IN  /\ fig.print = <<"G","e","n","e","r","a","t","e","d",":"," ">> \o fig.name
               /\ Count(fig.print) = IF completed THEN 1 ELSE 0
               /\ Count(fig.print) > 0
                    => /\ Cardinality(SavedBy(q)) = 2
                       /\ \A p \in SavedBy(q) : p \in DOMAIN files /\ files[p].kind = "image"
      /\ ~Returned => \A c \in Range(console) : ~IsEntry(c)
      /\ Returned =>
           \E m \in 0..Len(console) :
             /\ \A i \in DOMAIN console : IsEntry(console[i]) <=> i > m
             /\ \A q \in FigureStatements : \E i \in 1..m : console[i] = main[q].fig.print
             /\ {FileName(p) : p \in Saved}
                  \subseteq {SubSeq(console[i], 5, Len(console[i])) : i \in (m + 1)..Len(console)}
             /\ Saved # {}

C7_Witness ==
  /\ Returned
  /\ Cardinality({i \in DOMAIN console : StartsWith(console[i], <<" "," ","-"," ">>)}) > 14
  /\ Cardinality({i \in DOMAIN console : StartsWith(console[i], <<"G","e","n","e","r","a","t","e","d",":"," ">>)}) = 7

----------------------------------------------------------------------------
\* C8: the figure fig2 draws and the figure fig6 draws each hold exactly 25
\* data points, one for every (category, method) pair of CATEGORY_DATA with
\* that pair's value, on a category axis in the order Simple, Multi-field,
\* Contextual, Bulk, Exception.
C8_TwentyFivePoints ==
  \A name \in {<<"f","i","g","2","_","c","a","l","l","s","_","b","y","_","c","a","t","e","g","o","r","y">>, <<"f","i","g","6","_","s","c","a","l","i","n","g","_","l","i","n","e">>} :
    Drawing(name) =>
      LET chart  == figs[Len(figs)]
          points == {<<chart.xticklabels[j], chart.series[i].label, chart.series[i].values[j]>> :
                       i \in DOMAIN chart.series, j \in DOMAIN chart.xticklabels}
          pairs  == UNION {{<<CATEGORY_DATA[c][1], CATEGORY_DATA[c][2][m][1], CATEGORY_DATA[c][2][m][2]>> :
                              m \in DOMAIN CATEGORY_DATA[c][2]} : c \in DOMAIN CATEGORY_DATA}
      IN  /\ chart.kind = IF name = <<"f","i","g","2","_","c","a","l","l","s","_","b","y","_","c","a","t","e","g","o","r","y">> THEN "grouped-bar" ELSE "line"
          /\ chart.xticklabels = <<<<"S","i","m","p","l","e">>, <<"M","u","l","t","i","-","f","i","e","l","d">>, <<"C","o","n","t","e","x","t","u","a","l">>, <<"B","u","l","k">>, <<"E","x","c","e","p","t","i","o","n">>>>
          /\ chart.xticks = <<0, 1, 2, 3, 4>>
          /\ Len(chart.series) = 5
          /\ \A i \in DOMAIN chart.series : Len(chart.series[i].values) = 5
          /\ Cardinality({<<p[1], p[2]>> : p \in points}) = 25
          /\ Cardinality(points) = 25
          /\ points = pairs

C8_Witness ==
  /\ Drawing(<<"f","i","g","2","_","c","a","l","l","s","_","b","y","_","c","a","t","e","g","o","r","y">>)
  /\ figs[Len(figs)].kind = "grouped-bar"
  /\ In("close")

----------------------------------------------------------------------------
\* C9: with the costs 0.0002 for Manifesto and 0.0089 for ReAct-4o, the cost
\* figure's Manifesto bar has the height 0.0002 * 1000 and the value text
\* $0.0002, whatever way the float arithmetic rounds, and the figure carries
\* an annotation that starts with 44x, 44 being 0.0089 / 0.0002 = 44.5
\* rounded down.
C9_CostTextAndRatio ==
  Drawing(<<"f","i","g","3","_","c","o","s","t","_","c","o","m","p","a","r","i","s","o","n">>) =>
    LET chart == figs[Len(figs)]
        ours  == Get(OVERALL_DATA, <<"M","a","n","i","f","e","s","t","o">>).cost
        react == Get(OVERALL_DATA, <<"R","e","A","c","t","-","4","o">>).cost
    IN  /\ ours = 2 /\ react = 89
        /\ (10 * react) \div ours = 445
        /\ \E i \in DOMAIN chart.bars :
             /\ chart.bars[i].label = <<"M","a","n","i","f","e","s","t","o">>
             /\ chart.bars[i].text = <<"$","0",".","0","0","0","2">>
             /\ chart.bars[i].height \in {(ours * 1000 * 1000) + e : e \in RoundErr}
        /\ \A i, j \in DOMAIN chart.bars :
             chart.bars[i].label = chart.bars[j].label => i = j
        /\ \E a \in Range(chart.annotations) :
             StartsWith(a, NatStr(react \div ours) \o <<"x">>) /\ StartsWith(a, <<"4","4","x">>)

C9_Witness ==
  /\ Drawing(<<"f","i","g","3","_","c","o","s","t","_","c","o","m","p","a","r","i","s","o","n">>)
  /\ figs[Len(figs)].bars[1].height = 1999999
  /\ In("savefig")

----------------------------------------------------------------------------
\* C10: the table fig7 draws has one row per method of OVERALL_DATA, in the
\* same order; the row's LLM Calls, Tokens, Cost/Task and Success cells are
\* that method's calls with one decimal, tokens with thousands separators,
\* cost as $ with four decimals and success as a percentage; the Manifesto
\* row is row 1 of the table, the highlighted one.
C10_TableAgreesWithData ==
  Drawing(<<"f","i","g","7","_","s","u","m","m","a","r","y","_","t","a","b","l","e">>) =>
    LET chart   == figs[Len(figs)]
        methods == keys(OVERALL_DATA)
        Col(l)  == CHOOSE c \in DOMAIN chart.colLabels : chart.colLabels[c] = l
    IN  /\ chart.kind = "table"
        /\ \A l \in {<<"M","e","t","h","o","d">>, <<"L","L","M"," ","C","a","l","l","s">>, <<"T","o","k","e","n","s">>, <<"C","o","s","t","/","T","a","s","k">>, <<"S","u","c","c","e","s","s">>} :
             \E c \in DOMAIN chart.colLabels : chart.colLabels[c] = l
        /\ Len(chart.cellText) = Len(methods)
        /\ \A r \in DOMAIN chart.cellText :
             LET row == chart.cellText[r]
                 d   == Get(OVERALL_DATA, methods[r])
             IN  /\ StartsWith(row[Col(<<"M","e","t","h","o","d">>)], methods[r])
                 /\ row[Col(<<"L","L","M"," ","C","a","l","l","s">>)] = FormatF1(d.calls)
                 /\ row[Col(<<"T","o","k","e","n","s">>)] = FormatComma(d.tokens)
                 /\ row[Col(<<"C","o","s","t","/","T","a","s","k">>)] = <<"$">> \o FormatF4(d.cost * 1000)
                 /\ row[Col(<<"S","u","c","c","e","s","s">>)] = NatStr(d.success) \o <<"%">>
        /\ StartsWith(chart.cellText[1][Col(<<"M","e","t","h","o","d">>)], <<"M","a","n","i","f","e","s","t","o">>)
        /\ chart.highlighted = {<<1, c - 1>> : c \in DOMAIN chart.colLabels}

C10_Witness ==
  /\ Drawing(<<"f","i","g","7","_","s","u","m","m","a","r","y","_","t","a","b","l","e">>)
  /\ figs[Len(figs)].kind = "table"
  /\ Cardinality(Events("return")) = 6

====
